---- MODULE Spec2Model ----
(***************************************************************************)
(* Model of the hybrid OCR extraction pipeline                             *)
(* (ocr-service/ocr_service/ocr_api.py): the process-wide lazily loaded    *)
(* models, and extract_text_from_pdf_bytes run by one caller (Spec) or by  *)
(* two interleaved callers (SpecConc); of the handler of /pdf-to-markdown  *)
(* with the Markdown formatter (SpecHttp); and of the remote-only handler  *)
(* of app/main_alternative.py (SpecRemote).                                *)
(***************************************************************************)
EXTENDS Integers, Sequences, FiniteSets, TLC

\* ------------------------------------------------------------------ bounds
\* longest document whose pages are of any kind
MaxRichPages == 1
\* longest document made of text pages and of pages whose rendering fails
MaxPages == 10
\* calls of extract_text_from_pdf_bytes one caller makes
MaxCalls == 2
\* longest document of a concurrent caller
MaxConcPages == 1
\* calls of extract_text_from_pdf_bytes a concurrent caller makes
MaxConcCalls == 1
\* requests a client sends to /pdf-to-markdown
MaxRequests == 1
\* longest document sent to the remote-only variant
MaxRemotePages == 3
\* requests sent to the remote-only variant
MaxRemoteRequests == 1

\* ------------------------------------------------------- program constants
BATCH_SIZE == 5

\* the callers (threads) of the process
Reqs == {1, 2}

\* the value of an unloaded model handle; a loaded handle is a number >= 1
None == 0

\* -------------------------------------------------------------------- text
\* A text is a sequence of tokens; the token " " is whitespace, every other
\* token is not.
WS == " "

RECURSIVE LStrip(_)
LStrip(s) == IF s = <<>> THEN <<>>
             ELSE IF Head(s) = WS THEN LStrip(Tail(s)) ELSE s

RECURSIVE RStrip(_)
RStrip(s) == IF s = <<>> THEN <<>>
             ELSE IF s[Len(s)] = WS THEN RStrip(SubSeq(s, 1, Len(s) - 1)) ELSE s

\* str.strip()
Strip(s) == RStrip(LStrip(s))

\* f"[OCR Error: {str(e)}]"
OcrErrorText(e) == <<"[OCR Error: ">> \o e \o <<"]">>

\* f"[DocTR Error: {str(e)}]"
DoctrErrorText(e) == <<"[DocTR Error: ">> \o e \o <<"]">>

\* the literal of line 218
NotAvailableText == <<"[OCR not available - Models failed to initialize]">>

\* str(e) of the exceptions of the model
RasterMsg == <<"cannot", WS, "render">>
DoctrMsg == <<"doctr", WS, "failed">>
Pix2TextMsg == <<"pix2text", WS, "failed">>
NoneCallMsg == <<"'NoneType' object is not callable">>

\* ------------------------------------------------------------- documents
\* What a call on a page yields: a text, or an exception.
Ok(t) == [ok |-> TRUE, text |-> t]
Raises == [ok |-> FALSE, text |-> <<>>]

\* A page: what page.get_text() yields, whether page.get_pixmap() succeeds,
\* what pix2text_model.recognize and doctr_model yield on its image.
Page(e, r, p, d) == [emb |-> e, raster |-> r, p2t |-> p, doctr |-> d]

DirectPage == Page(Ok(<<"a", WS>>), TRUE, Ok(<<"x">>), Ok(<<"d">>))
BlankTextPage == Page(Ok(<<WS>>), TRUE, Ok(<<"x">>), Ok(<<"d">>))
BrokenPage == Page(Raises, TRUE, Ok(<<"x">>), Ok(<<"d">>))
RasterFailPage == Page(Ok(<<>>), FALSE, Ok(<<"x">>), Ok(<<"d">>))
\* a page whose embedded text is the line "## Page 1"
HeadingTextPage == Page(Ok(<<"## Page ", "1">>), TRUE, Ok(<<"x">>), Ok(<<"d">>))

OcrOutcomes == {Ok(<<WS, "x">>), Ok(<<WS>>), Raises}
DoctrOutcomes == {Ok(<<"d", WS>>), Ok(<<>>), Raises}

ScanPages == {Page(Ok(<<>>), TRUE, p, d) : p \in OcrOutcomes, d \in DoctrOutcomes}

PageKinds == {DirectPage, BlankTextPage, BrokenPage, RasterFailPage, HeadingTextPage}
             \cup ScanPages

SeqsUpTo(S, n) == UNION {[1..k -> S] : k \in 0..n}

\* A document: whether fitz.open accepts the bytes, and its pages.
Doc(o, ps) == [opens |-> o, pages |-> ps]

Malformed == Doc(FALSE, <<>>)

\* n pages, k of them failing to render: the first k, or the last k
FailingRun(n, k, first) ==
  [i \in 1..n |-> IF (first /\ i <= k) \/ (~first /\ i > n - k)
                    THEN RasterFailPage ELSE DirectPage]

LongDocs == {Doc(TRUE, FailingRun(n, k, f)) :
               n \in 0..MaxPages, k \in 0..MaxPages, f \in BOOLEAN}

\* an image-only page that both recognizers read
ScanPage == Page(Ok(<<>>), TRUE, Ok(<<WS, "x">>), Ok(<<"d", WS>>))

\* the scanned documents: n image-only pages
ScanDocs == {Doc(TRUE, [i \in 1..n |-> ScanPage]) : n \in 0..MaxPages}

\* an image-only page on which Pix2Text raises and DocTR finds no text, then
\* a text page
MixedDoc == Doc(TRUE, <<Page(Ok(<<>>), TRUE, Raises, Ok(<<>>)), DirectPage>>)

Docs == {Malformed}
        \cup {Doc(TRUE, ps) : ps \in SeqsUpTo(PageKinds, MaxRichPages)}
        \cup LongDocs
        \cup ScanDocs
        \cup {MixedDoc}

\* the documents of the interleaved callers: text pages and image-only pages
\* that Pix2Text reads or fails on
ConcDocs == {Doc(TRUE, ps) :
               ps \in SeqsUpTo({DirectPage,
                                Page(Ok(<<>>), TRUE, Ok(<<WS, "x">>), Ok(<<"d", WS>>)),
                                Page(Ok(<<>>), TRUE, Raises, Ok(<<"d", WS>>))},
                               MaxConcPages)}

\* ------------------------------------------------------------- markdown
\* str(n) of a natural number, one token per digit
Digit == <<"0", "1", "2", "3", "4", "5", "6", "7", "8", "9">>

RECURSIVE Decimal(_)
Decimal(n) == IF n < 10 THEN <<Digit[n + 1]>>
              ELSE Decimal(n \div 10) \o <<Digit[(n % 10) + 1]>>

\* FormatBlock leaving out the heading of a page without text
FormatBlockSkipEmpty(result) ==
  IF result.status = "success" /\ result.text # <<>>
    THEN <<"## Page ">> \o Decimal(result.page) \o <<"\n\n">>
           \o result.text \o <<"\n\n">> \o <<"---\n\n">>
    ELSE <<>>

\* format_to_markdown, lines 26-41: what one result adds to markdown_lines
FormatBlock(result) ==
  <<"## Page ">> \o Decimal(result.page) \o <<"\n\n">>
    \o (IF result.status = "success" /\ result.text # <<>>
          THEN result.text \o <<"\n\n">>
          ELSE IF result.status = "error"
            THEN <<"*Error extracting text: ">>
                   \o (IF "error" \in DOMAIN result THEN result["error"]
                                                    ELSE <<"Unknown error">>)
                   \o <<"*\n\n">>
            ELSE <<"*No text extracted*\n\n">>)
    \o <<"---\n\n">>

RECURSIVE FormatPages(_)
FormatPages(ocr_results) ==
  IF ocr_results = <<>> THEN <<>>
  ELSE FormatBlock(Head(ocr_results)) \o FormatPages(Tail(ocr_results))

\* format_to_markdown, lines 19-43: the joined markdown_lines
format_to_markdown(ocr_results, title) ==
  <<"# ">> \o title \o <<"\n\n">> \o FormatPages(ocr_results)

\* the names of the uploads
Filenames == {<<"my", "_", "scan", ".pdf">>, <<"notes", ".pdf">>}

\* str.title() on a word of the file names
TitleCase(w) == CASE w = "my" -> "My"
                  [] w = "scan" -> "Scan"
                  [] w = "notes" -> "Notes"
                  [] OTHER -> w

\* file.filename.replace('.pdf', '').replace('_', ' ').title(), api.py line 113
DocumentTitle(filename) ==
  LET stem == SelectSeq(filename, LAMBDA w : w # ".pdf")
  IN [i \in 1..Len(stem) |-> IF stem[i] = "_" THEN WS ELSE TitleCase(stem[i])]

\* file.filename.replace('.pdf', '.md'), api.py line 127
MarkdownName(filename) ==
  [i \in 1..Len(filename) |-> IF filename[i] = ".pdf" THEN ".md" ELSE filename[i]]

\* the content types of the uploads
ContentTypes == {"application/pdf", "text/plain"}

\* ------------------------------------------------- the remote-only variant
\* What requests.post yields for a page image: a response, or an exception.
HttpResponse(code, has, gen, body) ==
  [sent |-> TRUE, status_code |-> code, has_text |-> has, generated_text |-> gen,
   text |-> body]
TransportError ==
  [sent |-> FALSE, status_code |-> 0, has_text |-> FALSE, generated_text |-> <<>>,
   text |-> <<>>]

\* str(e) of the exceptions of the remote variant
TransportMsg == <<"connection", WS, "refused">>
PixmapMsg == <<"cannot", WS, "render">>
OpenMsg == <<"cannot", WS, "open">>

RemoteOutcomes ==
  {HttpResponse(200, TRUE, <<"t">>, <<"{generated_text}">>),
   HttpResponse(200, FALSE, <<>>, <<"{}">>),
   HttpResponse(503, FALSE, <<>>, <<"Model", WS, "loading">>),
   TransportError}

\* a page of the remote variant: whether get_pixmap succeeds, and what the
\* remote backend answers for its image
AltPage(ra, o) == [raster |-> ra, ocr |-> o]

AltPages == {AltPage(TRUE, o) : o \in RemoteOutcomes}
              \cup {AltPage(FALSE, HttpResponse(200, TRUE, <<"t">>, <<"{generated_text}">>))}

NoAltDoc == Doc(FALSE, <<>>)

AltDocs == {NoAltDoc} \cup {Doc(TRUE, ps) : ps \in SeqsUpTo(AltPages, MaxRemotePages)}

\* an exception with its message
Raised(msg) == [ok |-> FALSE, text |-> msg]

\* ocr_image_bytes, main_alternative.py lines 22-31
ocr_image_bytes(answer) ==
  IF ~answer.sent THEN Raised(TransportMsg)
  ELSE IF answer.status_code = 200
    THEN Ok(IF answer.has_text THEN answer.generated_text ELSE <<>>)
    ELSE Raised(<<"HF API error: ">> \o answer.text)

\* ------------------------------------------------------------------ state
VARIABLES
  DOCTR_AVAILABLE,     \* module global, line 18
  PIX2TEXT_AVAILABLE,  \* module global, line 19
  doctr_model,         \* module global, line 20: None or the loaded handle
  pix2text_model,      \* module global, line 21
  loads,               \* models loaded so far, per backend (names the handles)
  pc,                  \* per caller: the line it is at
  doc,                 \* per caller: the bytes it submits
  calls,               \* per caller: calls started so far
  pdf_open,            \* per caller: pdf_document is open
  total_pages,         \* per caller: local of extract_text_from_pdf_bytes
  batch_start,
  batch_end,
  page_num,
  text,
  results,
  batches,             \* per caller: the page ranges of the batches run
  gcs,                 \* per caller: gc.collect() calls of line 230
  ev,                  \* per caller: what was invoked for the current page
  plog,                \* per caller: ev of every page appended
  prev,                \* per caller: the summary of its previous call, if it returned
  file,                \* per client: the upload of its request to /pdf-to-markdown
                       \* (calls0: the calls of the pipeline made before it)
  hpc,                 \* per client: the line of convert_pdf_to_markdown it is at
  response,            \* per client: the response to its request
  nreq,                \* per client: requests sent so far
  alt                  \* the request served by main_alternative.pdf_to_markdown

globals == <<DOCTR_AVAILABLE, PIX2TEXT_AVAILABLE, doctr_model, pix2text_model, loads>>
locals == <<total_pages, batch_start, batch_end, page_num, text, results>>
ghosts == <<batches, gcs, ev, plog, prev>>
handler == <<file, hpc, response, nreq>>
vars == <<globals, pc, doc, calls, pdf_open, locals, ghosts, handler, alt>>

NoDoc == Doc(FALSE, <<>>)

\* no upload yet, no response yet
NoFile == [content_type |-> "", filename |-> <<>>, body |-> NoDoc, read |-> FALSE,
           calls0 |-> 0]
NoResponse == [status_code |-> 0]

\* main_alternative.pdf_to_markdown before a request
AltIdle == [pc |-> "idle", nreq |-> 0, content_type |-> "", body |-> NoAltDoc,
            read |-> FALSE, pdf_open |-> FALSE, page_num |-> 0,
            markdown_content |-> <<>>, notes |-> <<>>, response |-> NoResponse]

Init ==
  /\ DOCTR_AVAILABLE = FALSE
  /\ PIX2TEXT_AVAILABLE = FALSE
  /\ doctr_model = None
  /\ pix2text_model = None
  /\ loads = [doctr |-> 0, p2t |-> 0]
  /\ pc = [r \in Reqs |-> "idle"]
  /\ doc = [r \in Reqs |-> NoDoc]
  /\ calls = [r \in Reqs |-> 0]
  /\ pdf_open = [r \in Reqs |-> FALSE]
  /\ total_pages = [r \in Reqs |-> 0]
  /\ batch_start = [r \in Reqs |-> 0]
  /\ batch_end = [r \in Reqs |-> 0]
  /\ page_num = [r \in Reqs |-> 0]
  /\ text = [r \in Reqs |-> <<>>]
  /\ results = [r \in Reqs |-> <<>>]
  /\ batches = [r \in Reqs |-> <<>>]
  /\ gcs = [r \in Reqs |-> 0]
  /\ ev = [r \in Reqs |-> <<>>]
  /\ plog = [r \in Reqs |-> <<>>]
  /\ prev = [r \in Reqs |-> <<>>]
  /\ file = [r \in Reqs |-> NoFile]
  /\ hpc = [r \in Reqs |-> "idle"]
  /\ response = [r \in Reqs |-> NoResponse]
  /\ nreq = [r \in Reqs |-> 0]
  /\ alt = AltIdle


\* ------------------------------------------------------------- the code
Min(a, b) == IF a < b THEN a ELSE b

\* the page object pdf_document[page_num] of caller r
CurPage(r) == doc[r].pages[page_num[r] + 1]

\* PageResult with the 0-based loop index as the page number
PageResultZeroBased(n, t) ==
  [page |-> n,
   text |-> Strip(t),
   status |-> IF Strip(t) # <<>> THEN "success" ELSE "empty"]

\* PageResult reporting every page as a success
PageResultAlwaysSuccess(n, t) ==
  [page |-> n + 1,
   text |-> Strip(t),
   status |-> "success"]

\* the dictionary appended at lines 223-227
PageResult(n, t) ==
  [page |-> n + 1,
   text |-> Strip(t),
   status |-> IF Strip(t) # <<>> THEN "success" ELSE "empty"]

\* the events of the model initializations, which are no part of a page's path
IsInitEvent(e) == e \in {"initD", "initP"}

\* the page numbers and statuses of a result list, with the path each page took
Summary(res, log) ==
  [pages |-> [i \in 1..Len(res) |-> res[i].page],
   status |-> [i \in 1..Len(res) |-> res[i].status],
   path |-> [i \in 1..Len(log) |-> SelectSeq(log[i], LAMBDA e : ~IsInitEvent(e))]]

\* NeedsOcr without the direct-text short-circuit
NeedsOcrAlways(t) == TRUE

\* NeedsOcr sending a page with a single token of text to OCR as well
NeedsOcrSparse(t) == Len(Strip(t)) <= 1

\* if not text.strip(), line 208
NeedsOcr(t) == Strip(t) = <<>>

\* NextBatchStart stepping one page too far
NextBatchStartGap(s) == s + BATCH_SIZE + 1

\* the step of range(0, total_pages, BATCH_SIZE), line 193
NextBatchStart(s) == s + BATCH_SIZE

\* min(batch_start + BATCH_SIZE, total_pages), line 194
BatchEndOf(s, n) == Min(s + BATCH_SIZE, n)

\* Open keeping the result list of the caller's previous call
OpenKeepResults(r, D, m) ==
  /\ pc[r] \in {"idle", "returned", "raised"}
  /\ calls[r] < m
  /\ \E d \in D :
       /\ calls[r] > 0 => d = doc[r]
       /\ doc' = [doc EXCEPT ![r] = d]
       /\ pdf_open' = [pdf_open EXCEPT ![r] = d.opens]
       /\ total_pages' = [total_pages EXCEPT ![r] = Len(d.pages)]
       /\ pc' = [pc EXCEPT ![r] = IF d.opens THEN "batch" ELSE "raised"]
  /\ calls' = [calls EXCEPT ![r] = @ + 1]
  /\ prev' = [prev EXCEPT ![r] =
                IF pc[r] = "returned" THEN <<Summary(results[r], plog[r])>> ELSE <<>>]
  /\ batch_start' = [batch_start EXCEPT ![r] = 0]
  /\ batch_end' = [batch_end EXCEPT ![r] = 0]
  /\ page_num' = [page_num EXCEPT ![r] = 0]
  /\ text' = [text EXCEPT ![r] = <<>>]
  /\ batches' = [batches EXCEPT ![r] = <<>>]
  /\ gcs' = [gcs EXCEPT ![r] = 0]
  /\ ev' = [ev EXCEPT ![r] = <<>>]
  /\ UNCHANGED <<globals, results, plog>>
  /\ UNCHANGED <<handler, alt>>

\* The caller starts extract_text_from_pdf_bytes (lines 176-181): fitz.open
\* raises on malformed bytes, otherwise the document is open and the batch
\* loop starts.  A caller's later calls submit the same bytes again.
Open(r, D, m) ==
  /\ pc[r] \in {"idle", "returned", "raised"}
  /\ calls[r] < m
  /\ \E d \in D :
       /\ calls[r] > 0 => d = doc[r]
       /\ doc' = [doc EXCEPT ![r] = d]
       /\ pdf_open' = [pdf_open EXCEPT ![r] = d.opens]
       /\ total_pages' = [total_pages EXCEPT ![r] = Len(d.pages)]
       /\ pc' = [pc EXCEPT ![r] = IF d.opens THEN "batch" ELSE "raised"]
  /\ calls' = [calls EXCEPT ![r] = @ + 1]
  /\ prev' = [prev EXCEPT ![r] = IF pc[r] = "returned" THEN <<Summary(results[r], plog[r])>> ELSE <<>>]
  /\ results' = [results EXCEPT ![r] = <<>>]
  /\ batch_start' = [batch_start EXCEPT ![r] = 0]
  /\ batch_end' = [batch_end EXCEPT ![r] = 0]
  /\ page_num' = [page_num EXCEPT ![r] = 0]
  /\ text' = [text EXCEPT ![r] = <<>>]
  /\ batches' = [batches EXCEPT ![r] = <<>>]
  /\ gcs' = [gcs EXCEPT ![r] = 0]
  /\ ev' = [ev EXCEPT ![r] = <<>>]
  /\ plog' = [plog EXCEPT ![r] = <<>>]
  /\ UNCHANGED globals
  /\ UNCHANGED <<handler, alt>>

\* for batch_start in range(0, total_pages, BATCH_SIZE): lines 193-195
BatchBegin(r) ==
  /\ pc[r] = "batch"
  /\ batch_start[r] < total_pages[r]
  /\ batch_end' = [batch_end EXCEPT ![r] = BatchEndOf(batch_start[r], total_pages[r])]
  /\ batches' = [batches EXCEPT ![r] = Append(@, <<batch_start[r], batch_end'[r]>>)]
  /\ page_num' = [page_num EXCEPT ![r] = batch_start[r]]
  /\ pc' = [pc EXCEPT ![r] = "page"]
  /\ UNCHANGED <<globals, doc, calls, pdf_open, total_pages, batch_start, text, results,
                 gcs, ev, plog, prev>>
  /\ UNCHANGED <<handler, alt>>

\* the batch loop is exhausted: pdf_document.close() and return, lines 236-245
Close(r) ==
  /\ pc[r] = "batch"
  /\ batch_start[r] >= total_pages[r]
  /\ pdf_open' = [pdf_open EXCEPT ![r] = FALSE]
  /\ pc' = [pc EXCEPT ![r] = "returned"]
  /\ UNCHANGED <<globals, doc, calls, locals, ghosts>>
  /\ UNCHANGED <<handler, alt>>

\* for page_num in range(batch_start, batch_end): load the page and probe its
\* embedded text, lines 201-208 and 220-221.  An exception of the page load
\* or of get_text leaves the function (nothing catches it).
PageProbe(r) ==
  /\ pc[r] = "page"
  /\ page_num[r] < batch_end[r]
  /\ IF ~CurPage(r).emb.ok
       THEN /\ pc' = [pc EXCEPT ![r] = "raised"]
            /\ ev' = [ev EXCEPT ![r] = <<>>]
            /\ UNCHANGED text
       ELSE /\ text' = [text EXCEPT ![r] = CurPage(r).emb.text]
            /\ IF NeedsOcr(CurPage(r).emb.text)
                 THEN /\ pc' = [pc EXCEPT ![r] = "chk_doctr"]
                      /\ ev' = [ev EXCEPT ![r] = <<>>]
                 ELSE /\ pc' = [pc EXCEPT ![r] = "append"]
                      /\ ev' = [ev EXCEPT ![r] = <<"direct">>]
  /\ UNCHANGED <<globals, doc, calls, pdf_open, total_pages, batch_start, batch_end,
                 page_num, results, batches, gcs, plog, prev>>
  /\ UNCHANGED <<handler, alt>>

\* BatchEnd without the gc.collect() of line 230
BatchEndNoGc(r) ==
  /\ pc[r] = "page"
  /\ page_num[r] >= batch_end[r]
  /\ batch_start' = [batch_start EXCEPT ![r] = NextBatchStart(@)]
  /\ pc' = [pc EXCEPT ![r] = "batch"]
  /\ UNCHANGED <<globals, doc, calls, pdf_open, total_pages, batch_end, page_num, text,
                 results, batches, gcs, ev, plog, prev>>
  /\ UNCHANGED <<handler, alt>>

\* the page loop of the batch is exhausted: gc.collect(), line 230
BatchEnd(r) ==
  /\ pc[r] = "page"
  /\ page_num[r] >= batch_end[r]
  /\ gcs' = [gcs EXCEPT ![r] = @ + 1]
  /\ batch_start' = [batch_start EXCEPT ![r] = NextBatchStart(@)]
  /\ pc' = [pc EXCEPT ![r] = "batch"]
  /\ UNCHANGED <<globals, doc, calls, pdf_open, total_pages, batch_end, page_num, text,
                 results, batches, ev, plog, prev>>
  /\ UNCHANGED <<handler, alt>>

\* CheckDoctr loading the model for every page that requires OCR, without
\* the tests of lines 210 and 31
CheckDoctrReload(r) ==
  /\ pc[r] = "chk_doctr"
  /\ pc' = [pc EXCEPT ![r] = "loadD"]
  /\ UNCHANGED <<globals, doc, calls, pdf_open, locals, ghosts>>
  /\ UNCHANGED <<handler, alt>>

\* if doctr_model is None: _init_doctr(), lines 210-211
CheckDoctr(r) ==
  /\ pc[r] = "chk_doctr"
  /\ pc' = [pc EXCEPT ![r] = IF doctr_model = None THEN "initD" ELSE "chk_p2t"]
  /\ UNCHANGED <<globals, doc, calls, pdf_open, locals, ghosts>>
  /\ UNCHANGED <<handler, alt>>

\* _init_doctr, lines 31-32: return when the model is loaded
InitDoctrEnter(r) ==
  /\ pc[r] = "initD"
  /\ pc' = [pc EXCEPT ![r] = IF doctr_model # None THEN "chk_p2t" ELSE "loadD"]
  /\ ev' = [ev EXCEPT ![r] = IF doctr_model # None THEN @ ELSE Append(@, "initD")]
  /\ UNCHANGED <<globals, doc, calls, pdf_open, locals, batches, gcs, plog, prev>>
  /\ UNCHANGED <<handler, alt>>

\* _init_doctr, lines 35-41: the import and ocr_predictor(pretrained=True)
\* end, with the handle assigned or with an exception
LoadDoctr(r) ==
  /\ pc[r] = "loadD"
  /\ \E ok \in BOOLEAN :
       IF ok
         THEN /\ loads' = [loads EXCEPT !.doctr = @ + 1]
              /\ doctr_model' = loads.doctr + 1
              /\ pc' = [pc EXCEPT ![r] = "flagD"]
         ELSE /\ pc' = [pc EXCEPT ![r] = "excD"]
              /\ UNCHANGED <<loads, doctr_model>>
  /\ UNCHANGED <<DOCTR_AVAILABLE, PIX2TEXT_AVAILABLE, pix2text_model, doc, calls, pdf_open,
                 locals, ghosts>>
  /\ UNCHANGED <<handler, alt>>

\* _init_doctr, line 43
FlagDoctr(r) ==
  /\ pc[r] = "flagD"
  /\ DOCTR_AVAILABLE' = TRUE
  /\ pc' = [pc EXCEPT ![r] = "chk_p2t"]
  /\ UNCHANGED <<PIX2TEXT_AVAILABLE, doctr_model, pix2text_model, loads, doc, calls,
                 pdf_open, locals, ghosts>>
  /\ UNCHANGED <<handler, alt>>

\* _init_doctr, line 50
ExceptDoctrFlag(r) ==
  /\ pc[r] = "excD"
  /\ DOCTR_AVAILABLE' = FALSE
  /\ pc' = [pc EXCEPT ![r] = "excD2"]
  /\ UNCHANGED <<PIX2TEXT_AVAILABLE, doctr_model, pix2text_model, loads, doc, calls,
                 pdf_open, locals, ghosts>>
  /\ UNCHANGED <<handler, alt>>

\* ExceptDoctrModel leaving a handle that is not None after a failed load
ExceptDoctrModelSticky(r) ==
  /\ pc[r] = "excD2"
  /\ doctr_model' = -1
  /\ pc' = [pc EXCEPT ![r] = "chk_p2t"]
  /\ UNCHANGED <<DOCTR_AVAILABLE, PIX2TEXT_AVAILABLE, pix2text_model, loads, doc, calls,
                 pdf_open, locals, ghosts>>
  /\ UNCHANGED <<handler, alt>>

\* _init_doctr, line 51
ExceptDoctrModel(r) ==
  /\ pc[r] = "excD2"
  /\ doctr_model' = None
  /\ pc' = [pc EXCEPT ![r] = "chk_p2t"]
  /\ UNCHANGED <<DOCTR_AVAILABLE, PIX2TEXT_AVAILABLE, pix2text_model, loads, doc, calls,
                 pdf_open, locals, ghosts>>
  /\ UNCHANGED <<handler, alt>>

\* if pix2text_model is None: _init_pix2text(), lines 212-213
CheckPix2Text(r) ==
  /\ pc[r] = "chk_p2t"
  /\ pc' = [pc EXCEPT ![r] = IF pix2text_model = None THEN "initP" ELSE "chk_avail"]
  /\ UNCHANGED <<globals, doc, calls, pdf_open, locals, ghosts>>
  /\ UNCHANGED <<handler, alt>>

\* _init_pix2text, lines 58-59
InitPix2TextEnter(r) ==
  /\ pc[r] = "initP"
  /\ pc' = [pc EXCEPT ![r] = IF pix2text_model # None THEN "chk_avail" ELSE "loadP"]
  /\ ev' = [ev EXCEPT ![r] = IF pix2text_model # None THEN @ ELSE Append(@, "initP")]
  /\ UNCHANGED <<globals, doc, calls, pdf_open, locals, batches, gcs, plog, prev>>
  /\ UNCHANGED <<handler, alt>>

\* _init_pix2text, lines 62-68
LoadPix2Text(r) ==
  /\ pc[r] = "loadP"
  /\ \E ok \in BOOLEAN :
       IF ok
         THEN /\ loads' = [loads EXCEPT !.p2t = @ + 1]
              /\ pix2text_model' = loads.p2t + 1
              /\ pc' = [pc EXCEPT ![r] = "flagP"]
         ELSE /\ pc' = [pc EXCEPT ![r] = "excP"]
              /\ UNCHANGED <<loads, pix2text_model>>
  /\ UNCHANGED <<DOCTR_AVAILABLE, PIX2TEXT_AVAILABLE, doctr_model, doc, calls, pdf_open,
                 locals, ghosts>>
  /\ UNCHANGED <<handler, alt>>

\* _init_pix2text, line 70
FlagPix2Text(r) ==
  /\ pc[r] = "flagP"
  /\ PIX2TEXT_AVAILABLE' = TRUE
  /\ pc' = [pc EXCEPT ![r] = "chk_avail"]
  /\ UNCHANGED <<DOCTR_AVAILABLE, doctr_model, pix2text_model, loads, doc, calls,
                 pdf_open, locals, ghosts>>
  /\ UNCHANGED <<handler, alt>>

\* _init_pix2text, line 75
ExceptPix2TextFlag(r) ==
  /\ pc[r] = "excP"
  /\ PIX2TEXT_AVAILABLE' = FALSE
  /\ pc' = [pc EXCEPT ![r] = "excP2"]
  /\ UNCHANGED <<DOCTR_AVAILABLE, doctr_model, pix2text_model, loads, doc, calls,
                 pdf_open, locals, ghosts>>
  /\ UNCHANGED <<handler, alt>>

\* _init_pix2text, line 76
ExceptPix2TextModel(r) ==
  /\ pc[r] = "excP2"
  /\ pix2text_model' = None
  /\ pc' = [pc EXCEPT ![r] = "chk_avail"]
  /\ UNCHANGED <<DOCTR_AVAILABLE, PIX2TEXT_AVAILABLE, doctr_model, loads, doc, calls,
                 pdf_open, locals, ghosts>>
  /\ UNCHANGED <<handler, alt>>

\* the condition of line 215
DoctrReady == DOCTR_AVAILABLE /\ doctr_model # None

\* CheckAvailable accepting either backend as sufficient for the hybrid OCR
CheckAvailableEither(r) ==
  /\ pc[r] = "chk_avail"
  /\ IF DoctrReady \/ (PIX2TEXT_AVAILABLE /\ pix2text_model # None)
       THEN /\ pc' = [pc EXCEPT ![r] = "raster"]
            /\ UNCHANGED <<text, ev>>
       ELSE /\ text' = [text EXCEPT ![r] = NotAvailableText]
            /\ ev' = [ev EXCEPT ![r] = Append(@, "unavailable")]
            /\ pc' = [pc EXCEPT ![r] = "append"]
  /\ UNCHANGED <<globals, doc, calls, pdf_open, total_pages, batch_start, batch_end,
                 page_num, results, batches, gcs, plog, prev>>
  /\ UNCHANGED <<handler, alt>>

\* lines 215-219: the hybrid OCR when DocTR is ready, else the placeholder
CheckAvailable(r) ==
  /\ pc[r] = "chk_avail"
  /\ IF DoctrReady
       THEN /\ pc' = [pc EXCEPT ![r] = "raster"]
            /\ UNCHANGED <<text, ev>>
       ELSE /\ text' = [text EXCEPT ![r] = NotAvailableText]
            /\ ev' = [ev EXCEPT ![r] = Append(@, "unavailable")]
            /\ pc' = [pc EXCEPT ![r] = "append"]
  /\ UNCHANGED <<globals, doc, calls, pdf_open, total_pages, batch_start, batch_end,
                 page_num, results, batches, gcs, plog, prev>>
  /\ UNCHANGED <<handler, alt>>

\* Rasterize letting the rendering exception leave the function
RasterizeRaising(r) ==
  /\ pc[r] = "raster"
  /\ ev' = [ev EXCEPT ![r] = IF CurPage(r).raster THEN Append(@, "raster")
                                                   ELSE @ \o <<"raster", "rasterFail">>]
  /\ pc' = [pc EXCEPT ![r] = IF CurPage(r).raster THEN "chk_p2t_ready" ELSE "raised"]
  /\ UNCHANGED <<globals, doc, calls, pdf_open, total_pages, batch_start, batch_end,
                 page_num, text, results, batches, gcs, plog, prev>>
  /\ UNCHANGED <<handler, alt>>

\* _process_page_hybrid, lines 85-96: the page is rendered to an image; an
\* exception is caught at line 127 and returned as a marker
Rasterize(r) ==
  /\ pc[r] = "raster"
  /\ IF CurPage(r).raster
       THEN /\ pc' = [pc EXCEPT ![r] = "chk_p2t_ready"]
            /\ ev' = [ev EXCEPT ![r] = Append(@, "raster")]
            /\ UNCHANGED text
       ELSE /\ text' = [text EXCEPT ![r] = OcrErrorText(RasterMsg)]
            /\ ev' = [ev EXCEPT ![r] = @ \o <<"raster", "rasterFail">>]
            /\ pc' = [pc EXCEPT ![r] = "append"]
  /\ UNCHANGED <<globals, doc, calls, pdf_open, total_pages, batch_start, batch_end,
                 page_num, results, batches, gcs, plog, prev>>
  /\ UNCHANGED <<handler, alt>>

\* the condition of line 99
Pix2TextReady == PIX2TEXT_AVAILABLE /\ pix2text_model # None

\* ChoosePrimary trying DocTR first
ChoosePrimaryDoctrFirst(r) ==
  /\ pc[r] = "chk_p2t_ready"
  /\ pc' = [pc EXCEPT ![r] = "doctr"]
  /\ UNCHANGED <<globals, doc, calls, pdf_open, locals, ghosts>>
  /\ UNCHANGED <<handler, alt>>

\* _process_page_hybrid, lines 99 and 117-119
ChoosePrimary(r) ==
  /\ pc[r] = "chk_p2t_ready"
  /\ pc' = [pc EXCEPT ![r] = IF Pix2TextReady THEN "p2t" ELSE "doctr"]
  /\ UNCHANGED <<globals, doc, calls, pdf_open, locals, ghosts>>
  /\ UNCHANGED <<handler, alt>>

\* CallPix2Text treating a blank result like a failure: DocTR is tried next
CallPix2TextBlankFallsBack(r) ==
  /\ pc[r] = "p2t"
  /\ IF pix2text_model # None /\ CurPage(r).p2t.ok
       THEN /\ text' = [text EXCEPT ![r] = CurPage(r).p2t.text]
            /\ ev' = [ev EXCEPT ![r] = Append(@, "p2t")]
            /\ pc' = [pc EXCEPT ![r] = IF Strip(CurPage(r).p2t.text) = <<>>
                                         THEN "doctr" ELSE "hybrid_end"]
       ELSE /\ ev' = [ev EXCEPT ![r] = @ \o <<"p2t", "p2tFail">>]
            /\ pc' = [pc EXCEPT ![r] = "doctr"]
            /\ UNCHANGED text
  /\ UNCHANGED <<globals, doc, calls, pdf_open, total_pages, batch_start, batch_end,
                 page_num, results, batches, gcs, plog, prev>>
  /\ UNCHANGED <<handler, alt>>

\* CallPix2Text without the handler of line 114: the exception of the
\* recognizer reaches line 127 and becomes the page's marker
CallPix2TextNoFallback(r) ==
  /\ pc[r] = "p2t"
  /\ IF pix2text_model # None /\ CurPage(r).p2t.ok
       THEN /\ text' = [text EXCEPT ![r] = CurPage(r).p2t.text]
            /\ ev' = [ev EXCEPT ![r] = Append(@, "p2t")]
            /\ pc' = [pc EXCEPT ![r] = "hybrid_end"]
       ELSE /\ text' = [text EXCEPT ![r] = OcrErrorText(Pix2TextMsg)]
            /\ ev' = [ev EXCEPT ![r] = @ \o <<"p2t", "p2tFail">>]
            /\ pc' = [pc EXCEPT ![r] = "append"]
  /\ UNCHANGED <<globals, doc, calls, pdf_open, total_pages, batch_start, batch_end,
                 page_num, results, batches, gcs, plog, prev>>
  /\ UNCHANGED <<handler, alt>>

\* _process_page_hybrid, lines 100-116: pix2text_model.recognize(image); an
\* exception (of the recognizer, or of a handle reset to None meanwhile)
\* falls back to DocTR
CallPix2Text(r) ==
  /\ pc[r] = "p2t"
  /\ IF pix2text_model # None /\ CurPage(r).p2t.ok
       THEN /\ text' = [text EXCEPT ![r] = CurPage(r).p2t.text]
            /\ ev' = [ev EXCEPT ![r] = Append(@, "p2t")]
            /\ pc' = [pc EXCEPT ![r] = "hybrid_end"]
       ELSE /\ ev' = [ev EXCEPT ![r] = @ \o <<"p2t", "p2tFail">>]
            /\ pc' = [pc EXCEPT ![r] = "doctr"]
            /\ UNCHANGED text
  /\ UNCHANGED <<globals, doc, calls, pdf_open, total_pages, batch_start, batch_end,
                 page_num, results, batches, gcs, plog, prev>>
  /\ UNCHANGED <<handler, alt>>

\* CallDoctr rendering the page again for the fallback
CallDoctrRerender(r) ==
  /\ pc[r] = "doctr"
  /\ IF doctr_model = None
       THEN /\ text' = [text EXCEPT ![r] = DoctrErrorText(NoneCallMsg)]
            /\ ev' = [ev EXCEPT ![r] = @ \o <<"raster", "doctrNone", "doctrFail">>]
       ELSE IF CurPage(r).doctr.ok
         THEN /\ text' = [text EXCEPT ![r] = Strip(CurPage(r).doctr.text)]
              /\ ev' = [ev EXCEPT ![r] = @ \o <<"raster", "doctr">>]
         ELSE /\ text' = [text EXCEPT ![r] = DoctrErrorText(DoctrMsg)]
              /\ ev' = [ev EXCEPT ![r] = @ \o <<"raster", "doctr", "doctrFail">>]
  /\ pc' = [pc EXCEPT ![r] = "hybrid_end"]
  /\ UNCHANGED <<globals, doc, calls, pdf_open, total_pages, batch_start, batch_end,
                 page_num, results, batches, gcs, plog, prev>>
  /\ UNCHANGED <<handler, alt>>

\* _process_with_doctr, lines 136-160: doctr_model([img_array]); calling a
\* None handle raises TypeError; every exception is returned as a marker
CallDoctr(r) ==
  /\ pc[r] = "doctr"
  /\ IF doctr_model = None
       THEN /\ text' = [text EXCEPT ![r] = DoctrErrorText(NoneCallMsg)]
            /\ ev' = [ev EXCEPT ![r] = @ \o <<"doctrNone", "doctrFail">>]
       ELSE IF CurPage(r).doctr.ok
         THEN /\ text' = [text EXCEPT ![r] = Strip(CurPage(r).doctr.text)]
              /\ ev' = [ev EXCEPT ![r] = Append(@, "doctr")]
         ELSE /\ text' = [text EXCEPT ![r] = DoctrErrorText(DoctrMsg)]
              /\ ev' = [ev EXCEPT ![r] = @ \o <<"doctr", "doctrFail">>]
  /\ pc' = [pc EXCEPT ![r] = "hybrid_end"]
  /\ UNCHANGED <<globals, doc, calls, pdf_open, total_pages, batch_start, batch_end,
                 page_num, results, batches, gcs, plog, prev>>
  /\ UNCHANGED <<handler, alt>>

\* _process_page_hybrid, lines 121-125: gc.collect() and return text.strip()
HybridEnd(r) ==
  /\ pc[r] = "hybrid_end"
  /\ text' = [text EXCEPT ![r] = Strip(@)]
  /\ ev' = [ev EXCEPT ![r] = Append(@, "gc")]
  /\ pc' = [pc EXCEPT ![r] = "append"]
  /\ UNCHANGED <<globals, doc, calls, pdf_open, total_pages, batch_start, batch_end,
                 page_num, results, batches, gcs, plog, prev>>
  /\ UNCHANGED <<handler, alt>>

\* results.append({...}), lines 223-227, and the next page
AppendResult(r) ==
  /\ pc[r] = "append"
  /\ results' = [results EXCEPT ![r] = Append(@, PageResult(page_num[r], text[r]))]
  /\ plog' = [plog EXCEPT ![r] = Append(@, ev[r])]
  /\ page_num' = [page_num EXCEPT ![r] = @ + 1]
  /\ pc' = [pc EXCEPT ![r] = "page"]
  /\ UNCHANGED <<globals, doc, calls, pdf_open, total_pages, batch_start, batch_end,
                 text, batches, gcs, ev, prev>>
  /\ UNCHANGED <<handler, alt>>

\* one step of caller r inside extract_text_from_pdf_bytes
Run(r) ==
  \/ BatchBegin(r)
  \/ Close(r)
  \/ PageProbe(r)
  \/ BatchEnd(r)
  \/ CheckDoctr(r)
  \/ InitDoctrEnter(r)
  \/ LoadDoctr(r)
  \/ FlagDoctr(r)
  \/ ExceptDoctrFlag(r)
  \/ ExceptDoctrModel(r)
  \/ CheckPix2Text(r)
  \/ InitPix2TextEnter(r)
  \/ LoadPix2Text(r)
  \/ FlagPix2Text(r)
  \/ ExceptPix2TextFlag(r)
  \/ ExceptPix2TextModel(r)
  \/ CheckAvailable(r)
  \/ Rasterize(r)
  \/ ChoosePrimary(r)
  \/ CallPix2Text(r)
  \/ CallDoctr(r)
  \/ HybridEnd(r)
  \/ AppendResult(r)

\* one step of caller r, who makes at most m calls on a document drawn from D
Step(r, D, m) ==
  \/ Open(r, D, m)
  \/ Run(r)

\* one caller: extractions follow one another in the process
Next == Step(1, Docs, MaxCalls)

Spec == Init /\ [][Next]_vars

\* two callers whose extractions interleave
NextConc == \E r \in Reqs : Step(r, ConcDocs, MaxConcCalls)

SpecConc == Init /\ [][NextConc]_vars

\* ------------------------------------ the handler convert_pdf_to_markdown
pipeline == <<globals, pc, doc, calls, pdf_open, locals, ghosts>>

\* str(e) of what extract_text_from_pdf_bytes raised
PageMsg == <<"cannot", WS, "read", WS, "page">>
RaisedMsg(r) == IF doc[r].opens THEN PageMsg ELSE OpenMsg

\* A client posts a file to /pdf-to-markdown.  A client's later uploads carry
\* the bytes of its first one.
Upload(r) ==
  /\ hpc[r] \in {"idle", "sent"}
  /\ nreq[r] < MaxRequests
  /\ \E c \in ContentTypes, f \in Filenames, d \in Docs :
       /\ calls[r] > 0 => d = doc[r]
       /\ file' = [file EXCEPT ![r] =
                     [content_type |-> c, filename |-> f, body |-> d, read |-> FALSE,
                      calls0 |-> calls[r]]]
  /\ nreq' = [nreq EXCEPT ![r] = @ + 1]
  /\ response' = [response EXCEPT ![r] = NoResponse]
  /\ hpc' = [hpc EXCEPT ![r] = "check"]
  /\ UNCHANGED <<pipeline, alt>>

\* CheckContentType accepting every upload
CheckContentTypeAny(r) ==
  /\ hpc[r] = "check"
  /\ hpc' = [hpc EXCEPT ![r] = "read"]
  /\ UNCHANGED <<pipeline, file, response, nreq, alt>>

\* api.py lines 101-102: HTTPException(400) unless the file is a PDF
CheckContentType(r) ==
  /\ hpc[r] = "check"
  /\ IF file[r].content_type # "application/pdf"
       THEN /\ response' = [response EXCEPT ![r] =
                              [status_code |-> 400, detail |-> "File must be a PDF"]]
            /\ hpc' = [hpc EXCEPT ![r] = "sent"]
       ELSE /\ hpc' = [hpc EXCEPT ![r] = "read"]
            /\ UNCHANGED response
  /\ UNCHANGED <<pipeline, file, nreq, alt>>

\* api.py line 106: pdf_bytes = await file.read()
ReadUpload(r) ==
  /\ hpc[r] = "read"
  /\ file' = [file EXCEPT ![r].read = TRUE]
  /\ hpc' = [hpc EXCEPT ![r] = "extract"]
  /\ UNCHANGED <<pipeline, response, nreq, alt>>

\* the handler of client r has called extract_text_from_pdf_bytes
Called(r) == calls[r] > file[r].calls0

\* api.py line 110: the call of extract_text_from_pdf_bytes(pdf_bytes); its
\* steps are those of Run
CallExtract(r) ==
  /\ hpc[r] = "extract"
  /\ ~Called(r)
  /\ Open(r, {file[r].body}, MaxRequests)

\* api.py lines 113-128: the call has returned; the results are formatted,
\* written to a temporary file and sent
FormatAndSend(r) ==
  /\ hpc[r] = "extract"
  /\ Called(r)
  /\ pc[r] = "returned"
  /\ response' = [response EXCEPT ![r] =
                     [status_code |-> 200,
                      media_type |-> "text/markdown",
                      filename |-> MarkdownName(file[r].filename),
                      content |-> format_to_markdown(results[r],
                                                     DocumentTitle(file[r].filename))]]
  /\ hpc' = [hpc EXCEPT ![r] = "sent"]
  /\ UNCHANGED <<pipeline, file, nreq, alt>>

\* HandlerExcept answering without status_code=500
HandlerExceptStatus200(r) ==
  /\ hpc[r] = "extract"
  /\ Called(r)
  /\ pc[r] = "raised"
  /\ response' = [response EXCEPT ![r] =
                     [status_code |-> 200,
                      content |-> [success |-> FALSE,
                                   error |-> "PDF processing error",
                                   details |-> RaisedMsg(r)]]]
  /\ hpc' = [hpc EXCEPT ![r] = "sent"]
  /\ UNCHANGED <<pipeline, file, nreq, alt>>

\* api.py lines 130-140: the call has raised; JSONResponse(status_code=500)
HandlerExcept(r) ==
  /\ hpc[r] = "extract"
  /\ Called(r)
  /\ pc[r] = "raised"
  /\ response' = [response EXCEPT ![r] =
                     [status_code |-> 500,
                      content |-> [success |-> FALSE,
                                   error |-> "PDF processing error",
                                   details |-> RaisedMsg(r)]]]
  /\ hpc' = [hpc EXCEPT ![r] = "sent"]
  /\ UNCHANGED <<pipeline, file, nreq, alt>>

\* the requests to the orchestrator are served one after the other
NextHttp ==
  \/ Upload(1)
  \/ CheckContentType(1)
  \/ ReadUpload(1)
  \/ CallExtract(1)
  \/ Run(1)
  \/ FormatAndSend(1)
  \/ HandlerExcept(1)

SpecHttp == Init /\ [][NextHttp]_vars

\* ----------------------------- the handler main_alternative.pdf_to_markdown
\* the JSONResponse of lines 123-130
AltError(msg) ==
  [status_code |-> 500,
   content |-> [success |-> FALSE, error |-> "PDF processing error", details |-> msg]]

\* what lines 101-103 and 105-106 append for page n, given what
\* ocr_image_bytes did
AltBlock(n, out) ==
  <<"## Page ">> \o Decimal(n + 1) \o <<"\n\n">>
    \o (IF out.ok THEN out.text \o <<"\n\n---\n\n">>
                  ELSE <<"*Error: ">> \o out.text \o <<"*\n\n---\n\n">>)

\* a client posts a file to /pdf-to-markdown of the remote-only service
AltUpload ==
  /\ alt.pc \in {"idle", "sent"}
  /\ alt.nreq < MaxRemoteRequests
  /\ \E c \in ContentTypes, d \in AltDocs :
       alt' = [AltIdle EXCEPT !.pc = "check", !.nreq = alt.nreq + 1,
                              !.content_type = c, !.body = d]
  /\ UNCHANGED <<pipeline, handler>>

\* lines 76-77
AltCheckContentType ==
  /\ alt.pc = "check"
  /\ alt' = IF alt.content_type # "application/pdf"
              THEN [alt EXCEPT !.pc = "sent",
                               !.response = [status_code |-> 400,
                                             detail |-> "File must be a PDF"]]
              ELSE [alt EXCEPT !.pc = "read"]
  /\ UNCHANGED <<pipeline, handler>>

\* lines 81-87: the body is read and opened; fitz.open raises on malformed
\* bytes, which line 122 catches
AltOpen ==
  /\ alt.pc = "read"
  /\ alt' = IF alt.body.opens
              THEN [alt EXCEPT !.pc = "loop", !.read = TRUE, !.pdf_open = TRUE,
                               !.markdown_content = <<"# JEE Question Bank\n\n">>]
              ELSE [alt EXCEPT !.pc = "sent", !.read = TRUE,
                               !.response = AltError(OpenMsg)]
  /\ UNCHANGED <<pipeline, handler>>

\* lines 89-97: the next page is rendered; an exception of get_pixmap or of
\* tobytes is outside the try of line 99 and reaches line 122
AltRasterize ==
  /\ alt.pc = "loop"
  /\ alt.page_num < Len(alt.body.pages)
  /\ alt' = IF alt.body.pages[alt.page_num + 1].raster
              THEN [alt EXCEPT !.pc = "ocr"]
              ELSE [alt EXCEPT !.pc = "sent", !.response = AltError(PixmapMsg)]
  /\ UNCHANGED <<pipeline, handler>>

\* lines 99-106: the page's image is sent to the remote backend and the
\* page's block is appended
AltOcr ==
  /\ alt.pc = "ocr"
  /\ LET out == ocr_image_bytes(alt.body.pages[alt.page_num + 1].ocr)
     IN alt' = [alt EXCEPT !.pc = "loop",
                           !.markdown_content = @ \o AltBlock(alt.page_num, out),
                           !.notes = Append(@, IF out.ok THEN <<>> ELSE out.text),
                           !.page_num = @ + 1]
  /\ UNCHANGED <<pipeline, handler>>

\* line 108: the loop is exhausted, pdf_document.close()
AltClose ==
  /\ alt.pc = "loop"
  /\ alt.page_num >= Len(alt.body.pages)
  /\ alt' = [alt EXCEPT !.pc = "save", !.pdf_open = FALSE]
  /\ UNCHANGED <<pipeline, handler>>

\* lines 111-120: the FileResponse with the joined markdown_content
AltSend ==
  /\ alt.pc = "save"
  /\ alt' = [alt EXCEPT !.pc = "sent",
                         !.response = [status_code |-> 200,
                                       media_type |-> "text/markdown",
                                       content |-> alt.markdown_content]]
  /\ UNCHANGED <<pipeline, handler>>

NextRemote ==
  \/ AltUpload
  \/ AltCheckContentType
  \/ AltOpen
  \/ AltRasterize
  \/ AltOcr
  \/ AltClose
  \/ AltSend

SpecRemote == Init /\ [][NextRemote]_vars


\* ------------------------------------------------------------ properties
Has(q, e) == \E i \in 1..Len(q) : q[i] = e

Last(q) == q[Len(q)]

\* the number of pages of the document caller r submitted
NumPages(r) == Len(doc[r].pages)

IsOcrMarker(t) == Len(t) >= 2 /\ Head(t) = "[OCR Error: " /\ Last(t) = "]"

IsDoctrMarker(t) == Len(t) >= 2 /\ Head(t) = "[DocTR Error: " /\ Last(t) = "]"

IsMarker(t) == IsOcrMarker(t) \/ IsDoctrMarker(t)

\* page i of caller r required OCR (its embedded text was blank)
NeededOcr(r, i) == ~Has(plog[r][i], "direct")

\* C1: a call that returns has returned exactly one PageResult per page of the
\* document, their page fields being 1..N in order, however many pages failed.
C1_OneResultPerPage ==
  \A r \in Reqs :
    pc[r] = "returned" =>
      /\ Len(results[r]) = NumPages(r)
      /\ \A i \in 1..Len(results[r]) : results[r][i].page = i

\* a returned call on a document of two batches with a page whose rendering
\* failed and a page that found the backend unavailable
C1_Witness ==
  \E r \in Reqs :
    /\ pc[r] = "returned"
    /\ NumPages(r) > BATCH_SIZE
    /\ \E i \in 1..Len(plog[r]) : Has(plog[r][i], "rasterFail")
    /\ \E i \in 1..Len(plog[r]) : Has(plog[r][i], "unavailable")

\* C2 as stated: every failure of the rendering or of an adapter call on a
\* page is a marker string in that page's text, none is raised, and a call
\* that returns has the full list.
C2_EveryFailureIsMarker ==
  \A r \in Reqs :
    /\ pc[r] = "raised" => ev[r] = <<>>
    /\ pc[r] = "returned" => Len(results[r]) = NumPages(r)
    /\ \A i \in 1..Len(results[r]) :
         (Has(plog[r][i], "rasterFail") \/ Has(plog[r][i], "p2tFail")
            \/ Has(plog[r][i], "doctrFail"))
           => IsMarker(results[r][i].text)

\* C2 (amended): a failed rendering and a failed DocTR call are marker strings
\* in the page's text; a failed Pix2Text call leaves no marker of its own, the
\* page's text is what DocTR returned for the page; no such failure is raised
\* (an exception leaves the call only before a page's OCR starts), every
\* page's result is appended, and a call that returns has the full list.
C2_FailuresStayInPage ==
  \A r \in Reqs :
    /\ pc[r] = "raised" => ev[r] = <<>>
    /\ pc[r] = "returned" => Len(results[r]) = NumPages(r)
    /\ Len(plog[r]) = Len(results[r])
    /\ \A i \in 1..Len(results[r]) :
         /\ Has(plog[r][i], "rasterFail") => IsOcrMarker(results[r][i].text)
         /\ Has(plog[r][i], "doctrFail") => IsDoctrMarker(results[r][i].text)
         /\ (Has(plog[r][i], "p2tFail") /\ ~Has(plog[r][i], "doctrFail"))
              => /\ ~IsMarker(results[r][i].text)
                 /\ results[r][i].text = Strip(doc[r].pages[i].doctr.text)

\* a returned call in which a page whose rendering failed is followed by a
\* page that was processed
C2_Witness ==
  \E r \in Reqs :
    /\ pc[r] = "returned"
    /\ \E i \in 1..Len(plog[r]) : Has(plog[r][i], "rasterFail") /\ i < Len(plog[r])

\* C3 as stated: a page whose embedded text is not the empty string has
\* status success, and neither the rendering nor an adapter ran for it.
C3_NonEmptyTextIsDirect ==
  \A r \in Reqs : \A i \in 1..Len(results[r]) :
    doc[r].pages[i].emb.text # <<>> =>
      /\ results[r][i].status = "success"
      /\ plog[r][i] = <<"direct">>

\* C3 (amended): a page whose embedded text is not blank (has a character that
\* is not whitespace) has status success and the stripped embedded text, and
\* neither the rendering, nor an adapter, nor an initialization ran for it.
C3_NonBlankTextIsDirect ==
  \A r \in Reqs : \A i \in 1..Len(results[r]) :
    Strip(doc[r].pages[i].emb.text) # <<>> =>
      /\ results[r][i].status = "success"
      /\ results[r][i].text = Strip(doc[r].pages[i].emb.text)
      /\ plog[r][i] = <<"direct">>

\* a page with embedded text has been appended after a page that needed OCR
C3_Witness ==
  \E r \in Reqs : \E i \in 2..Len(results[r]) :
    /\ Strip(doc[r].pages[i].emb.text) # <<>>
    /\ NeededOcr(r, i - 1)

\* C4: a page without embedded text that finds both backends unavailable gets
\* status empty or error and the placeholder text.
C4_UnavailableIsNotSuccess ==
  \A r \in Reqs :
    (/\ pc[r] = "page"
     /\ Len(plog[r]) > 0
     /\ Has(Last(plog[r]), "unavailable")
     /\ ~DoctrReady
     /\ ~Pix2TextReady)
      => /\ Last(results[r]).status \in {"empty", "error"}
         /\ Last(results[r]).text = NotAvailableText

\* C5: a page whose rendering failed, or whose last adapter call failed, is
\* recorded with status error and an error message that is not empty.
C5_FailedPageHasErrorStatus ==
  \A r \in Reqs : \A i \in 1..Len(results[r]) :
    (Has(plog[r][i], "rasterFail") \/ Has(plog[r][i], "doctrFail"))
      => /\ results[r][i].status = "error"
         /\ "error" \in DOMAIN results[r][i]
         /\ results[r][i]["error"] # <<>>

\* the number and the sizes of the batches of a document of n pages
BatchesExact(bs, n) ==
  /\ (Len(bs) - 1) * BATCH_SIZE < n \/ (n = 0 /\ Len(bs) = 0)
  /\ n <= Len(bs) * BATCH_SIZE
  /\ \A k \in 1..Len(bs) :
       /\ bs[k][1] = (IF k = 1 THEN 0 ELSE bs[k - 1][2])
       /\ bs[k][1] < bs[k][2]
       /\ k < Len(bs) => bs[k][2] - bs[k][1] = BATCH_SIZE
       /\ k = Len(bs) =>
            /\ bs[k][2] = n
            /\ bs[k][2] - bs[k][1] =
                 (IF n % BATCH_SIZE = 0 THEN BATCH_SIZE ELSE n % BATCH_SIZE)

\* C6: a call that returns has run ceil(N/B) batches, contiguous page ranges
\* that cover [0, N) in order, each of B pages but the last, which has N mod B
\* pages (B when N is a multiple of B); the pages were processed in that order.
C6_BatchPartition ==
  \A r \in Reqs :
    /\ pc[r] = "returned" => BatchesExact(batches[r], NumPages(r))
    /\ \A i \in 1..Len(results[r]) :
         \E k \in 1..Len(batches[r]) :
           /\ batches[r][k][1] < results[r][i].page
           /\ results[r][i].page <= batches[r][k][2]

\* a returned call of two batches, the last one shorter than B
C6_Witness ==
  \E r \in Reqs :
    /\ pc[r] = "returned"
    /\ Len(batches[r]) = 2
    /\ batches[r][2][2] - batches[r][2][1] < BATCH_SIZE
    /\ Len(results[r]) = batches[r][2][2]

\* C7: when the call has ended, by return or by an exception, the document is
\* not open.
C7_ClosedWhenCallEnds ==
  \A r \in Reqs : pc[r] \in {"returned", "raised"} => ~pdf_open[r]

\* C8: no two callers load the same model at the same time, and no model is
\* loaded twice.
C8_SingleFlight ==
  /\ \A r1, r2 \in Reqs :
       r1 # r2 => /\ ~(pc[r1] = "loadD" /\ pc[r2] = "loadD")
                  /\ ~(pc[r1] = "loadP" /\ pc[r2] = "loadP")
  /\ loads.doctr <= 1
  /\ loads.p2t <= 1

C10_SameStatusesTwice ==
  \A r \in Reqs :
    (pc[r] = "returned" /\ prev[r] # <<>>) =>
      /\ Summary(results[r], plog[r]).pages = Last(prev[r]).pages
      /\ Summary(results[r], plog[r]).status = Last(prev[r]).status

\* C10 (amended): a second call on the same bytes returns the same page
\* numbers as the first, and the same statuses when every page found the same
\* backends available in both calls (it took the same path through the
\* direct text, the placeholder, the rendering, Pix2Text and DocTR).
C10_SameStatusesOnSamePath ==
  \A r \in Reqs :
    (pc[r] = "returned" /\ prev[r] # <<>>) =>
      /\ Summary(results[r], plog[r]).pages = Last(prev[r]).pages
      /\ Summary(results[r], plog[r]).path = Last(prev[r]).path
           => Summary(results[r], plog[r]).status = Last(prev[r]).status

\* a second call has returned on a document with a page that was processed by
\* an OCR backend in both calls
C10_Witness ==
  \E r \in Reqs :
    /\ pc[r] = "returned"
    /\ prev[r] # <<>>
    /\ Summary(results[r], plog[r]).path = Last(prev[r]).path
    /\ \E i \in 1..Len(plog[r]) : Has(plog[r][i], "doctr") \/ Has(plog[r][i], "p2t")


\* how often e occurs in q
Count(q, e) == Cardinality({i \in 1..Len(q) : q[i] = e})

\* the place of the first e in q (0 when there is none)
IndexOf(q, e) == IF Has(q, e) THEN CHOOSE i \in 1..Len(q) :
                                      q[i] = e /\ \A j \in 1..(i - 1) : q[j] # e
                 ELSE 0

RECURSIVE SumCount(_, _)
SumCount(log, e) == IF log = <<>> THEN 0
                    ELSE Count(Head(log), e) + SumCount(Tail(log), e)

\* every gc.collect() of the call so far: line 230 and line 123
TotalGc(r) == gcs[r] + SumCount(plog[r], "gc")
                + (IF pc[r] = "append" THEN Count(ev[r], "gc") ELSE 0)

\* caller r is inside a batch: past line 195 and not yet past line 230
InBatch(r) == batches[r] # <<>> /\ pc[r] \notin {"batch", "returned"}

\* C11 as stated: a call that returns has triggered memory reclamation once
\* per batch and no more, twice on a document of 7 pages.
C11_OneGcPerBatchOnly ==
  \A r \in Reqs :
    pc[r] = "returned" =>
      /\ TotalGc(r) = Len(batches[r])
      /\ NumPages(r) = 7 => TotalGc(r) = 2

\* C11 (amended): the reclamation of the batch loop (line 230) is triggered
\* once per batch, after the last page of the batch is appended and before the
\* next batch begins; a document of 7 pages has the batches 1-5 and 6-7 and
\* two such reclamations.  Besides, every page that was rendered for OCR
\* triggers one reclamation of its own (line 123), and no other page does.
C11_OneBatchGcPerBatch ==
  \A r \in Reqs :
    /\ gcs[r] = Len(batches[r]) - (IF InBatch(r) THEN 1 ELSE 0)
    /\ (batches[r] # <<>> /\ ~InBatch(r)) => Len(results[r]) = Last(batches[r])[2]
    /\ InBatch(r) => /\ Last(batches[r])[1] <= Len(results[r])
                     /\ Len(results[r]) <= Last(batches[r])[2]
    /\ (pc[r] = "returned" /\ NumPages(r) = 7) =>
         /\ batches[r] = << <<0, 5>>, <<5, 7>> >>
         /\ gcs[r] = 2
    /\ \A i \in 1..Len(plog[r]) :
         Count(plog[r][i], "gc") =
           (IF Has(plog[r][i], "raster") /\ ~Has(plog[r][i], "rasterFail") THEN 1 ELSE 0)
    /\ pc[r] = "returned" =>
         TotalGc(r) = Len(batches[r])
                        + Cardinality({i \in 1..Len(plog[r]) :
                             Has(plog[r][i], "raster") /\ ~Has(plog[r][i], "rasterFail")})

\* a returned call on a scanned document of 7 pages, each read by a backend
C11_Witness ==
  \E r \in Reqs :
    /\ pc[r] = "returned"
    /\ NumPages(r) = 7
    /\ gcs[r] = 2
    /\ \A i \in 1..Len(plog[r]) : Has(plog[r][i], "gc")

\* DocTR was invoked for the page of log q (on a handle, or on None)
DoctrInvoked(q) == Has(q, "doctr") \/ Has(q, "doctrNone")

\* the place in q of the invocation of DocTR
DoctrIndex(q) == IF Has(q, "doctr") THEN IndexOf(q, "doctr") ELSE IndexOf(q, "doctrNone")

\* Pix2Text returned for the page of log q, without raising
Pix2TextReturned(q) == Has(q, "p2t") /\ ~Has(q, "p2tFail")

\* C16 as stated: a step of the chain that yields empty text without raising
\* is followed by the next step: after blank direct text the OCR is tried, and
\* after a blank result of Pix2Text DocTR is invoked.
C16_EmptyStepIsFollowed ==
  \A r \in Reqs : \A i \in 1..Len(plog[r]) :
    /\ Strip(doc[r].pages[i].emb.text) = <<>> => NeededOcr(r, i)
    /\ (Pix2TextReturned(plog[r][i]) /\ Strip(doc[r].pages[i].p2t.text) = <<>>)
         => DoctrInvoked(plog[r][i])

\* C16 (amended): direct text that is not blank ends the chain; blank direct
\* text is followed by the OCR (the rendering, then Pix2Text, then DocTR, in
\* that order); DocTR follows Pix2Text only when Pix2Text raised, and then it
\* always does; a result of Pix2Text that did not raise ends the chain, blank
\* or not: DocTR is not invoked and the page's text is that result, stripped.
C16_ChainStopsAtFirstReturn ==
  \A r \in Reqs : \A i \in 1..Len(plog[r]) :
    /\ Strip(doc[r].pages[i].emb.text) # <<>> <=> plog[r][i] = <<"direct">>
    /\ NeededOcr(r, i) => Has(plog[r][i], "unavailable") \/ Has(plog[r][i], "raster")
    /\ Has(plog[r][i], "p2t") =>
         /\ Has(plog[r][i], "raster")
         /\ IndexOf(plog[r][i], "raster") < IndexOf(plog[r][i], "p2t")
    /\ DoctrInvoked(plog[r][i]) =>
         /\ Has(plog[r][i], "raster")
         /\ IndexOf(plog[r][i], "raster") < DoctrIndex(plog[r][i])
         /\ Has(plog[r][i], "p2t") =>
              /\ Has(plog[r][i], "p2tFail")
              /\ IndexOf(plog[r][i], "p2t") < DoctrIndex(plog[r][i])
    /\ Has(plog[r][i], "p2tFail") => DoctrInvoked(plog[r][i])
    /\ Pix2TextReturned(plog[r][i]) =>
         /\ ~DoctrInvoked(plog[r][i])
         /\ results[r][i].text = Strip(doc[r].pages[i].p2t.text)
         /\ results[r][i].status =
              (IF Strip(doc[r].pages[i].p2t.text) = <<>> THEN "empty" ELSE "success")

\* a page for which Pix2Text returned blank text was appended with status
\* empty, DocTR having text for it
C16_Witness ==
  \E r \in Reqs : \E i \in 1..Len(plog[r]) :
    /\ Pix2TextReturned(plog[r][i])
    /\ Strip(doc[r].pages[i].p2t.text) = <<>>
    /\ Strip(doc[r].pages[i].doctr.text) # <<>>
    /\ results[r][i].status = "empty"

\* C17 as stated: with both backends ready, Pix2Text is attempted for every
\* page that requires OCR, and before DocTR is invoked for it.
C17_Pix2TextAlwaysAttempted ==
  \A r \in Reqs :
    (/\ pc[r] = "page"
     /\ plog[r] # <<>>
     /\ NeededOcr(r, Len(plog[r]))
     /\ DoctrReady
     /\ Pix2TextReady)
      => /\ Has(Last(plog[r]), "p2t")
         /\ DoctrInvoked(Last(plog[r]))
              => IndexOf(Last(plog[r]), "p2t") < DoctrIndex(Last(plog[r]))

\* C17 (amended): with both backends ready, Pix2Text is attempted for every
\* page that requires OCR and was rendered, and before DocTR is invoked for
\* it; a page whose rendering failed is given to no adapter.
C17_Pix2TextFirstWhenRendered ==
  \A r \in Reqs :
    /\ (pc[r] = "page" /\ plog[r] # <<>> /\ NeededOcr(r, Len(plog[r]))
          /\ DoctrReady /\ Pix2TextReady)
         => IF Has(Last(plog[r]), "rasterFail")
              THEN ~Has(Last(plog[r]), "p2t") /\ ~DoctrInvoked(Last(plog[r]))
              ELSE /\ Has(Last(plog[r]), "p2t")
                   /\ DoctrInvoked(Last(plog[r]))
                        => IndexOf(Last(plog[r]), "p2t") < DoctrIndex(Last(plog[r]))
    /\ (pc[r] = "doctr" /\ Pix2TextReady) => Has(ev[r], "p2t")

\* with both backends ready, a page was given to Pix2Text and then to DocTR
C17_Witness ==
  \E r \in Reqs :
    /\ pc[r] = "page"
    /\ plog[r] # <<>>
    /\ DoctrReady
    /\ Pix2TextReady
    /\ Has(Last(plog[r]), "p2t")
    /\ Has(Last(plog[r]), "doctr")

\* what _process_with_doctr returns for page i of caller r, given its log q
DoctrOutput(r, i, q) ==
  IF Has(q, "doctrNone") THEN DoctrErrorText(NoneCallMsg)
  ELSE IF Has(q, "doctrFail") THEN DoctrErrorText(DoctrMsg)
  ELSE Strip(doc[r].pages[i].doctr.text)

\* C18: when Pix2Text raises on a page, DocTR is invoked next, on the image
\* rendered for Pix2Text (the page is rendered once), the page's text is what
\* _process_with_doctr returned, and the error of Pix2Text is no part of the
\* PageResult.
C18_FallbackToDoctrOnRaise ==
  \A r \in Reqs : \A i \in 1..Len(plog[r]) :
    Has(plog[r][i], "p2tFail") =>
      /\ DoctrInvoked(plog[r][i])
      /\ IndexOf(plog[r][i], "p2t") < DoctrIndex(plog[r][i])
      /\ Count(plog[r][i], "raster") = 1
      /\ IndexOf(plog[r][i], "raster") < IndexOf(plog[r][i], "p2t")
      /\ results[r][i].text = DoctrOutput(r, i, plog[r][i])
      /\ ~IsOcrMarker(results[r][i].text)
      /\ \A k \in 1..Len(results[r][i].text) : results[r][i].text[k] # Head(Pix2TextMsg)
      /\ DOMAIN results[r][i] = {"page", "text", "status"}

\* Pix2Text raised on a page and the page has the text DocTR read
C18_Witness ==
  \E r \in Reqs : \E i \in 1..Len(plog[r]) :
    /\ Has(plog[r][i], "p2tFail")
    /\ Has(plog[r][i], "doctr")
    /\ ~Has(plog[r][i], "doctrFail")
    /\ results[r][i].text # <<>>
    /\ results[r][i].text = Strip(doc[r].pages[i].doctr.text)

\* C19: every PageResult has a status among success, empty and error; status
\* success comes with text that is not empty, status empty with empty text and
\* no error field.
C19_StatusInvariants ==
  \A r \in Reqs : \A i \in 1..Len(results[r]) :
    /\ results[r][i].status \in {"success", "empty", "error"}
    /\ results[r][i].status = "success" => results[r][i].text # <<>>
    /\ results[r][i].status = "empty" =>
         /\ results[r][i].text = <<>>
         /\ "error" \notin DOMAIN results[r][i]

\* a page that DocTR read as blank was appended with status empty, and a call
\* has returned a page with status success
C19_Witness ==
  \E r \in Reqs :
    /\ pc[r] = "returned"
    /\ \E i \in 1..Len(results[r]) :
         /\ results[r][i].status = "empty"
         /\ Has(plog[r][i], "doctr")
    /\ prev[r] # <<>>
    /\ \E i \in 1..Len(Last(prev[r]).status) : Last(prev[r]).status[i] = "success"

\* C20: DocTR is never invoked through a handle that is None, whatever the
\* interleaving of the callers and of the initializations: no caller stands
\* at the call of line 141 with doctr_model None, and no page has made it.
C20_NeverInvokedOnNone ==
  \A r \in Reqs :
    /\ pc[r] = "doctr" => doctr_model # None
    /\ ~Has(ev[r], "doctrNone")
    /\ \A i \in 1..Len(plog[r]) : ~Has(plog[r][i], "doctrNone")

\* ------------------------------------------------ properties of the handlers
\* q has the tokens of sub, one after the other
Contains(q, sub) ==
  \E k \in 0..(Len(q) - Len(sub)) : SubSeq(q, k + 1, k + Len(sub)) = sub

\* the tokens that end a line
EndsLine(tok) ==
  tok \in {"\n\n", "*\n\n", "*No text extracted*\n\n", "---\n\n", "\n\n---\n\n",
           "*\n\n---\n\n", "# JEE Question Bank\n\n"}

\* a line of md that begins with "## Page " begins at i
HeadingAt(md, i) == md[i] = "## Page " /\ (i = 1 \/ EndsLine(md[i - 1]))

HeadingPlaces(md) == {i \in 1..Len(md) : HeadingAt(md, i)}

\* the heading at i is "## Page k" and ends its line
IsHeadingNumbered(md, i, k) ==
  /\ i + Len(Decimal(k)) + 1 <= Len(md)
  /\ SubSeq(md, i + 1, i + Len(Decimal(k))) = Decimal(k)
  /\ md[i + Len(Decimal(k)) + 1] = "\n\n"

\* a horizontal rule on a line of its own is at s
SeparatorAt(md, s) == s > 1 /\ md[s] = "---\n\n" /\ EndsLine(md[s - 1])

\* md has exactly n "## Page k" headings, k = 1..n in this order, and a
\* horizontal rule after each of them, before the next heading
PageHeadings(md, n) ==
  LET H == HeadingPlaces(md)
  IN /\ Cardinality(H) = n
     /\ \A i \in H :
          /\ IsHeadingNumbered(md, i, Cardinality({j \in H : j <= i}))
          /\ \E s \in (i + 1)..Len(md) :
               /\ SeparatorAt(md, s)
               /\ \A j \in H : j > i => s < j

\* the lines beginning with "## Page " in the page texts the formatter copies
RECURSIVE TextHeadings(_)
TextHeadings(res) ==
  IF res = <<>> THEN 0
  ELSE (IF Head(res).status = "success"
          THEN Cardinality(HeadingPlaces(Head(res).text)) ELSE 0)
         + TextHeadings(Tail(res))

\* C12 as stated: the Markdown sent for a document of N pages has exactly N
\* "## Page k" headings, k = 1..N in order, each followed by a horizontal
\* rule before the next heading, whatever the pages' statuses.
C12_ExactlyNHeadings ==
  \A r \in Reqs :
    response[r].status_code = 200 =>
      PageHeadings(response[r].content, NumPages(r))

\* C12 (amended): the Markdown sent for a document of N pages has N headings
\* and one more for every line of a copied page text that begins with
\* "## Page "; when no page text has such a line, it has exactly N
\* "## Page k" headings, k = 1..N in order, each followed by a horizontal rule
\* before the next heading, whatever the pages' statuses.
C12_HeadingPerPageAndTextLine ==
  \A r \in Reqs :
    response[r].status_code = 200 =>
      /\ Cardinality(HeadingPlaces(response[r].content))
           = NumPages(r) + TextHeadings(results[r])
      /\ TextHeadings(results[r]) = 0 =>
           PageHeadings(response[r].content, NumPages(r))

\* the Markdown was sent for a document whose first page has status empty and
\* whose second page has status success
C12_Witness ==
  \E r \in Reqs :
    /\ response[r].status_code = 200
    /\ NumPages(r) = 2
    /\ results[r][1].status = "empty"
    /\ results[r][2].status = "success"
    /\ PageHeadings(response[r].content, 2)

\* C13: the note recorded for a page whose OCR call was answered with a
\* status other than 200 has the status code and the body of the answer, and
\* the pages answered with 200 have no note.
C13_NoteHasStatusAndBody ==
  \A i \in 1..Len(alt.notes) :
    LET answer == alt.body.pages[i].ocr
    IN /\ (answer.sent /\ answer.status_code # 200) =>
            /\ Contains(alt.notes[i], Decimal(answer.status_code))
            /\ Contains(alt.notes[i], answer.text)
       /\ (answer.sent /\ answer.status_code = 200) => alt.notes[i] = <<>>

\* C14: when fitz.open raises on the uploaded bytes, the call produces no
\* PageResult, processes no page and runs no batch, and the handler answers
\* 500 with the body {success: false, error, details}.
C14_OpenFailureIs500 ==
  \A r \in Reqs :
    (hpc[r] \in {"extract", "sent"} /\ Called(r) /\ ~file[r].body.opens) =>
      /\ pc[r] = "raised"
      /\ results[r] = <<>>
      /\ plog[r] = <<>>
      /\ ev[r] = <<>>
      /\ batches[r] = <<>>
      /\ ~pdf_open[r]
      /\ hpc[r] = "sent" =>
           /\ response[r].status_code = 500
           /\ DOMAIN response[r].content = {"success", "error", "details"}
           /\ response[r].content.success = FALSE
           /\ response[r].content.details = OpenMsg

\* a request with malformed bytes has been answered
C14_Witness ==
  \E r \in Reqs :
    /\ hpc[r] = "sent"
    /\ Called(r)
    /\ ~file[r].body.opens
    /\ response[r].status_code = 500

\* the request of client r has a content type other than application/pdf
Rejected(r) == hpc[r] # "idle" /\ file[r].content_type # "application/pdf"

\* C15: for an upload whose content type is not application/pdf the body is
\* not read, extract_text_from_pdf_bytes is not called (no call is started
\* and none is running, so no document is opened and no PageResult is
\* produced), and the answer is 400.
C15_RejectedBeforePipeline ==
  \A r \in Reqs :
    Rejected(r) =>
      /\ ~file[r].read
      /\ hpc[r] \in {"check", "sent"}
      /\ calls[r] = file[r].calls0
      /\ pc[r] \in {"idle", "returned", "raised"}
      /\ calls[r] = 0 => (results[r] = <<>> /\ ~pdf_open[r])
      /\ hpc[r] = "sent" => response[r].status_code = 400

\* an upload of type text/plain that carries a well-formed document of
\* several pages has been answered
C15_Witness ==
  \E r \in Reqs :
    /\ Rejected(r)
    /\ hpc[r] = "sent"
    /\ file[r].body.opens
    /\ Len(file[r].body.pages) > 1
    /\ response[r].status_code = 400

\* C21: once an initialization has succeeded (the handle is set and the flag
\* is true), no step of the process loads that model again or changes its
\* handle or its flag.
C21_InitOnceForAll ==
  [][/\ DoctrReady => /\ doctr_model' = doctr_model
                      /\ DOCTR_AVAILABLE'
                      /\ loads'.doctr = loads.doctr
     /\ Pix2TextReady => /\ pix2text_model' = pix2text_model
                         /\ PIX2TEXT_AVAILABLE'
                         /\ loads'.p2t = loads.p2t]_vars

\* a second extraction runs DocTR through the handle the first one loaded,
\* without initializing
C21_Witness ==
  \E r \in Reqs :
    /\ calls[r] = 2
    /\ pc[r] = "hybrid_end"
    /\ Has(ev[r], "doctr")
    /\ ~Has(ev[r], "initD")
    /\ loads.doctr = 1
    /\ doctr_model = 1
    /\ DOCTR_AVAILABLE

\* C22: a page that requires OCR is rendered at most once, whichever adapters
\* are then tried (once when it reaches the hybrid OCR, never when its text is
\* direct or the backend is unavailable), and the pages are processed in page
\* order: whenever a page is probed or processed, the results of all the
\* pages before it, and of no other page, have been appended.
C22_RenderOnceInOrder ==
  \A r \in Reqs :
    /\ Count(ev[r], "raster") <= 1
    /\ \A i \in 1..Len(plog[r]) :
         Count(plog[r][i], "raster") =
           (IF NeededOcr(r, i) /\ ~Has(plog[r][i], "unavailable") THEN 1 ELSE 0)
    /\ Len(results[r]) = page_num[r]
    /\ Len(plog[r]) = page_num[r]
    /\ \A i \in 1..Len(results[r]) : results[r][i].page = i
    /\ pc[r] \in {"page", "batch"} => page_num[r] <= batch_end[r]

\* the second page of a document is being processed after a first page on
\* which Pix2Text raised and DocTR read the one image rendered
C22_Witness ==
  \E r \in Reqs :
    /\ page_num[r] = 1
    /\ pc[r] = "append"
    /\ Has(plog[r][1], "p2tFail")
    /\ Has(plog[r][1], "doctr")
    /\ Count(plog[r][1], "raster") = 1

\* C23: in the remote-only variant a failure on one page, of its rendering or
\* of its remote OCR call, stays in that page: the request of a document that
\* opens is answered 200 with the Markdown, every page was processed and has
\* its block, and the block of a failed page carries an error note.
C23_PageFailureConfined ==
  (alt.pc = "sent" /\ alt.read /\ alt.body.opens) =>
    /\ alt.response.status_code = 200
    /\ alt.page_num = Len(alt.body.pages)
    /\ Len(alt.notes) = Len(alt.body.pages)
    /\ Cardinality(HeadingPlaces(alt.response.content)) = Len(alt.body.pages)
    /\ \A i \in 1..Len(alt.body.pages) :
         (~alt.body.pages[i].raster \/ ~ocr_image_bytes(alt.body.pages[i].ocr).ok)
           => alt.notes[i] # <<>>

\* C24: whenever a request tests the availability of DocTR (line 215), the
\* flag and the handle agree: DOCTR_AVAILABLE is true exactly when doctr_model
\* is not None, also while another request's initialization is in progress.
C24_FlagAgreesWithHandle ==
  \A r \in Reqs :
    pc[r] = "chk_avail" => (DOCTR_AVAILABLE <=> doctr_model # None)

\* C25: Pix2Text is called for a page only while DocTR is initialized and
\* available; a page that requires OCR while DocTR is not ready gets the
\* text "[OCR not available - Models failed to initialize]", is not rendered
\* and is not given to Pix2Text, whether or not Pix2Text is ready.
C25_Pix2TextGatedOnDoctr ==
  \A r \in Reqs :
    /\ pc[r] = "p2t" => DoctrReady
    /\ (pc[r] = "append" /\ ~Has(ev[r], "direct") /\ ~DoctrReady) =>
         /\ text[r] = NotAvailableText
         /\ Has(ev[r], "unavailable")
         /\ ~Has(ev[r], "raster")
         /\ ~Has(ev[r], "p2t")
    /\ \A i \in 1..Len(plog[r]) :
         /\ Has(plog[r][i], "unavailable") =>
              /\ results[r][i].text = NotAvailableText
              /\ ~Has(plog[r][i], "raster")
              /\ ~Has(plog[r][i], "p2t")
              /\ ~Has(plog[r][i], "doctr")
         /\ (NeededOcr(r, i) /\ ~Has(plog[r][i], "unavailable")) =>
              Has(plog[r][i], "raster")

\* a page that requires OCR has been given the placeholder because DocTR
\* failed to initialize, while Pix2Text is loaded and available
C25_Witness ==
  \E r \in Reqs :
    /\ pc[r] = "append"
    /\ Has(ev[r], "unavailable")
    /\ Has(ev[r], "initD")
    /\ ~DoctrReady
    /\ Pix2TextReady
    /\ text[r] = NotAvailableText

\* caller r is between loading a page and appending its result
OnPage(r) ==
  /\ pc[r] \notin {"idle", "batch", "returned", "raised"}
  /\ page_num[r] < Len(doc[r].pages)

\* the event log q of a page records no initialization
NoInitFor(q) == ~Has(q, "initD") /\ ~Has(q, "initP")

\* C26 as stated: no step taken for a page whose embedded text is not the
\* empty string changes a handle, a flag or the number of loads, and no
\* initialization is recorded for such a page.
C26_NonEmptyTextKeepsBackends ==
  [][\A r \in Reqs :
       /\ (OnPage(r) /\ CurPage(r).emb.ok /\ CurPage(r).emb.text # <<>>) =>
            globals' = globals
       /\ \A i \in 1..Len(plog'[r]) :
            (doc'[r].pages[i].emb.ok /\ doc'[r].pages[i].emb.text # <<>>) =>
              NoInitFor(plog'[r][i])]_vars

\* C26 (amended): no step taken for a page whose embedded text is not blank
\* (has a character that is not whitespace) changes doctr_model,
\* pix2text_model, DOCTR_AVAILABLE, PIX2TEXT_AVAILABLE or the number of loads,
\* and no initialization is recorded for such a page; so a document of such
\* pages only runs no initialization.
C26_NonBlankTextKeepsBackends ==
  [][\A r \in Reqs :
       /\ (OnPage(r) /\ CurPage(r).emb.ok /\ Strip(CurPage(r).emb.text) # <<>>) =>
            globals' = globals
       /\ \A i \in 1..Len(plog'[r]) :
            (doc'[r].pages[i].emb.ok /\ Strip(doc'[r].pages[i].emb.text) # <<>>) =>
              NoInitFor(plog'[r][i])]_vars

\* a call on a document of several pages, all with text that is not blank,
\* has returned in a process where no model was ever loaded
C26_Witness ==
  \E r \in Reqs :
    /\ pc[r] = "returned"
    /\ Len(doc[r].pages) > 1
    /\ Len(plog[r]) = Len(doc[r].pages)
    /\ \A i \in 1..Len(doc[r].pages) :
         /\ doc[r].pages[i].emb.ok
         /\ Strip(doc[r].pages[i].emb.text) # <<>>
    /\ doctr_model = None
    /\ pix2text_model = None
    /\ loads.doctr = 0
    /\ loads.p2t = 0

====
